---- MODULE Spec2Model ----
(***************************************************************************)
(* Model of the trace visualizer (src/visualizer/src/main.rs): the data    *)
(* model of the trace, the pure drawing function draw_dag, and the event   *)
(* loop of main with its terminal setup and teardown.                      *)
(*                                                                         *)
(* Coordinates are f64 in the source; they are kept here in tenths of a    *)
(* canvas unit so that 1.5 is the integer 15.                              *)
(***************************************************************************)
EXTENDS Integers, Sequences, FiniteSets, TLC

VARIABLES
    last_state,   \* trace.states.last(): the final state of the trace, or NoState
    blocks,       \* main's `blocks`: round -> authority -> StatementBlock
    decisions,    \* main's `decisions`: the final decisions, reversed
    i,            \* main's cursor
    pc,           \* position of main
    key,          \* the event the last loop iteration read
    frame,        \* what the last successful draw put on the canvas
    shown,        \* length of the slice the last draw_dag call was given
    rawMode,      \* terminal is in raw mode
    altScreen,    \* terminal shows the alternate screen
    released,     \* the release calls that have been executed
    result        \* how main ended: "running", "Ok", "Err" or "panic"

vars == <<last_state, blocks, decisions, i, pc, key, frame, shown,
          rawMode, altScreen, released, result>>

(***************************************************************************)
(* Bounds of the model.                                                    *)
(***************************************************************************)
MaxDecisions == 4   \* longest decision list of a trace's final state
MaxHistory == 1     \* most decisions before the last one in a slice drawn on its own
MaxParents == 2     \* longest parent list of a block

(***************************************************************************)
(* Data model.                                                             *)
(***************************************************************************)
Labels == {"A", "B"}

BlockReference(authority, round, label) ==
    [authority |-> authority, round |-> round, label |-> label]

ProposerSlotState == {"Commit", "Skip", "Undecided"}

StatementBlock(reference, parents) ==
    [reference |-> reference, parents |-> parents]

IncompleteWave == [tag |-> "IncompleteWave"]
ErrorLog == [tag |-> "Error"]
UnableToDecide == [tag |-> "UnableToDecide"]

DirectDecision(certificate_blocks, supporting_edges) ==
    [tag |-> "DirectDecision",
     value |-> [certificate_blocks |-> certificate_blocks,
                supporting_edges |-> supporting_edges]]

IndirectDecision(anchor, edges) ==
    [tag |-> "IndirectDecision", value |-> [anchor |-> anchor, edges |-> edges]]

Decision(status, block, log) == [status |-> status, block |-> block, log |-> log]

State(ds, bs) == [decisions |-> ds, blocks |-> bs]

\* The (round, authority) keys of a block store.
Slots(bs) == UNION {{<<r, a>> : a \in DOMAIN bs[r]} : r \in DOMAIN bs}

(***************************************************************************)
(* Pure functions.                                                         *)
(***************************************************************************)
coordinates(authority, round) == <<round * 150, (3 - authority) * 50 + 15>>

color_from_status(status) ==
    CASE status = "Commit" -> "Green"
      [] status = "Skip" -> "Red"
      [] status = "Undecided" -> "Blue"

show_log(log) ==
    CASE log.tag = "IncompleteWave" -> <<"IncompleteWave">>
      [] log.tag = "DirectDecision" ->
            <<"DirectDecision, certificate blocks: ", log.value.certificate_blocks>>
      [] log.tag = "IndirectDecision" ->
            <<"IndirectDecision, anchor: ", log.value.anchor,
              ", edges: ", log.value.edges>>
      [] log.tag = "Error" -> <<"Error">>
      [] log.tag = "UnableToDecide" -> <<"UnableToDecide">>

\* edge_listed without the reversed pair.
edge_listed_forward_only(es, parent, block) ==
    \E k \in DOMAIN es :
        es[k][1] = parent.label /\ es[k][2] = block.reference.label

\* The closure of `.any(..)` at lines 137-140 and 147-150: the listed pair is
\* (parent, block) or (block, parent).
edge_listed(es, parent, block) ==
    \E k \in DOMAIN es :
        \/ es[k][1] = parent.label /\ es[k][2] = block.reference.label
        \/ es[k][1] = block.reference.label /\ es[k][2] = parent.label

\* The `match decision.log` of lines 133-159.
edge_color(decision, parent, block) ==
    CASE decision.log.tag = "DirectDecision" ->
            IF edge_listed(decision.log.value.supporting_edges, parent, block)
            THEN "Green" ELSE "White"
      [] decision.log.tag = "IndirectDecision" ->
            IF edge_listed(decision.log.value.edges, parent, block)
            THEN "Green" ELSE "White"
      [] OTHER -> "White"

\* node_color with the last matching decision winning.
node_color_last_match(ds, block) ==
    LET hits == {k \in DOMAIN ds : ds[k].block = block.reference}
    IN  IF hits = {} THEN "Gray"
        ELSE color_from_status(ds[CHOOSE k \in hits : \A m \in hits : k >= m].status)

\* node_color with the colour of Undecided for a block no decision names.
node_color_undecided_default(ds, block) ==
    LET hits == {k \in DOMAIN ds : ds[k].block = block.reference}
    IN  IF hits = {} THEN color_from_status("Undecided")
        ELSE color_from_status(ds[CHOOSE k \in hits : \A m \in hits : k <= m].status)

\* Lines 198-207: find_map over the slice, first match wins.
node_color(ds, block) ==
    LET hits == {k \in DOMAIN ds : ds[k].block = block.reference}
    IN  IF hits = {} THEN "Gray"
        ELSE color_from_status(ds[CHOOSE k \in hits : \A m \in hits : k <= m].status)

\* draw_edges skipping a parent reference that repeats an earlier one.
draw_edges_dedup(bs, decision) ==
    LET ids == UNION {{<<s[1], s[2], k>> :
                         k \in {n \in DOMAIN bs[s[1]][s[2]].parents :
                                  \A m \in 1..(n - 1) :
                                     bs[s[1]][s[2]].parents[m] # bs[s[1]][s[2]].parents[n]}} :
                      s \in Slots(bs)}
    IN  [id \in ids |->
            LET block == bs[id[1]][id[2]]
                parent == block.parents[id[3]]
            IN  [from |-> coordinates(parent.authority, parent.round),
                 to |-> coordinates(id[2], id[1]),
                 color |-> edge_color(decision, parent, block)]]

\* Lines 123-169: one Line per parent reference of every block, keyed here by
\* the block's slot and the parent's position (HashMap order is unspecified).
draw_edges(bs, decision) ==
    LET ids == UNION {{<<s[1], s[2], k>> : k \in DOMAIN bs[s[1]][s[2]].parents} :
                      s \in Slots(bs)}
    IN  [id \in ids |->
            LET block == bs[id[1]][id[2]]
                parent == block.parents[id[3]]
            IN  [from |-> coordinates(parent.authority, parent.round),
                 to |-> coordinates(id[2], id[1]),
                 color |-> edge_color(decision, parent, block)]]

\* Lines 179-193: the status line of the last decision.
draw_status(ds) ==
    IF ds = <<>> THEN <<>>
    ELSE LET last_result == ds[Len(ds)]
         IN  <<[text |-> <<last_result.block.label, last_result.status,
                          show_log(last_result.log)>>,
               color |-> color_from_status(last_result.status)]>>

\* Lines 209-224: the anchor annotation, printed once per block the anchor names.
draw_anchors(bs, decision) ==
    LET named == IF decision.log.tag = "IndirectDecision"
                 THEN {s \in Slots(bs) :
                         decision.log.value.anchor = bs[s[1]][s[2]].reference.label}
                 ELSE {}
    IN  [s \in named |->
            [text |-> <<"Anchor: ", decision.log.value.anchor>>,
             color |-> color_from_status(decision.status)]]

\* draw_nodes with the recolouring of the anchor that line 214 comments out.
draw_nodes_anchor_yellow(bs, ds) ==
    [s \in Slots(bs) |->
        LET block == bs[s[1]][s[2]]
            decision == ds[Len(ds)]
        IN  [at |-> coordinates(s[2], s[1]),
             label |-> block.reference.label,
             color |-> IF /\ decision.log.tag = "IndirectDecision"
                          /\ decision.log.value.anchor = block.reference.label
                       THEN "Yellow"
                       ELSE node_color(ds, block)]]

\* Lines 226-236: the point and the label of every block.
draw_nodes(bs, ds) ==
    [s \in Slots(bs) |->
        LET block == bs[s[1]][s[2]]
        IN  [at |-> coordinates(s[2], s[1]),
             label |-> block.reference.label,
             color |-> node_color(ds, block)]]

NoFrame == [kind |-> "none"]
Panic == [kind |-> "panic"]

\* Lines 118-244. `decisions.last().unwrap()` at line 124 panics on an empty slice.
draw_dag(bs, ds) ==
    IF ds = <<>> THEN Panic
    ELSE LET decision == ds[Len(ds)]
         IN  [kind |-> "frame",
              edges |-> draw_edges(bs, decision),
              status |-> draw_status(ds),
              anchors |-> draw_anchors(bs, decision),
              nodes |-> draw_nodes(bs, ds)]

(***************************************************************************)
(* Inputs: the traces and slices the model is run on.                      *)
(***************************************************************************)
RefA == BlockReference(0, 0, "A")
RefB == BlockReference(1, 1, "B")
Refs == {RefA, RefB}

SeqsUpTo(S, n) == UNION {[1..m -> S] : m \in 0..n}

EdgeLists == {<<>>, << <<"A", "B">> >>}

Logs ==
    {IncompleteWave, ErrorLog, UnableToDecide}
    \cup {DirectDecision(<<"A">>, es) : es \in EdgeLists}
    \cup {IndirectDecision(l, es) : l \in Labels, es \in EdgeLists}

Decisions == {Decision(st, b, lg) : st \in ProposerSlotState, b \in Refs, lg \in Logs}

\* Earlier decisions of a slice: their log lists the edge between A and B.
HistoryDecisions ==
    {Decision(st, b, DirectDecision(<<"A">>, << <<"A", "B">> >>)) :
        st \in ProposerSlotState, b \in Refs}

Slices ==
    {<<>>} \cup
    {Append(h, d) : h \in SeqsUpTo(HistoryDecisions, MaxHistory), d \in Decisions}

\* A store from a partial assignment of blocks to slots.
StoreOf(f) ==
    [r \in {s[1] : s \in DOMAIN f} |->
        [a \in {s[2] : s \in {t \in DOMAIN f : t[1] = r}} |-> f[<<r, a>>]]]

ParentLists == SeqsUpTo(Refs, MaxParents)

\* Every store over the slots of RefA and RefB: each slot is empty or holds the
\* block of that reference, with any parent list.
Stores ==
    {StoreOf(f) :
        f \in UNION {{g \in [S -> {StatementBlock(r, ps) : r \in Refs, ps \in ParentLists}] :
                        \A s \in S : g[s].reference.round = s[1]
                                     /\ g[s].reference.authority = s[2]} :
                     S \in SUBSET {<<r.round, r.authority>> : r \in Refs}}}

NoState == [kind |-> "none"]

NavDecisions ==
    {Decision(st, b, IndirectDecision("A", <<>>)) : st \in ProposerSlotState, b \in Refs}

NavStores ==
    {bs \in Stores : /\ Slots(bs) = {<<r.round, r.authority>> : r \in Refs}
                     /\ bs[0][0].parents = <<>>
                     /\ bs[1][1].parents \in {<<>>, <<RefA>>}}

Traces ==
    {NoState} \cup
    {State(ds, bs) : ds \in SeqsUpTo(NavDecisions, MaxDecisions), bs \in NavStores}

(***************************************************************************)
(* main, lines 246-287, and restore_terminal, lines 288-292.               *)
(***************************************************************************)
Init ==
    /\ last_state \in Traces
    /\ blocks = <<>>
    /\ decisions = <<>>
    /\ i = 0
    /\ pc = "enable_raw_mode"
    /\ key = "none"
    /\ frame = NoFrame
    /\ shown = 0
    /\ rawMode = FALSE
    /\ altScreen = FALSE
    /\ released = {}
    /\ result = "running"

\* main returns or unwinds with result r; nothing runs afterwards.
Exit(r) == pc' = "exit" /\ result' = r /\ key' = "none"

\* Lines 288-292: each call can fail, and `?` skips what follows it.
restore_terminal(ok1, ok2) ==
    /\ released' = released \cup (IF ok1 THEN {"disable_raw_mode", "LeaveAlternateScreen"}
                                  ELSE {"disable_raw_mode"})
    /\ rawMode' = IF ok1 THEN FALSE ELSE rawMode
    /\ altScreen' = IF ok1 /\ ok2 THEN FALSE ELSE altScreen
    /\ Exit(IF ok1 /\ ok2 THEN "Ok" ELSE "Err")

\* Line 251.
EnableRawMode ==
    /\ pc = "enable_raw_mode"
    /\ \E ok \in BOOLEAN :
        IF ok THEN /\ rawMode' = TRUE
                   /\ pc' = "enter_alternate_screen"
                   /\ UNCHANGED <<result, key>>
        ELSE rawMode' = rawMode /\ Exit("Err")
    /\ UNCHANGED <<last_state, blocks, decisions, i, frame, shown, altScreen, released>>

\* Lines 252-253: execute! writes EnterAlternateScreen, then EnableMouseCapture;
\* it can fail before or after the first has taken effect.
EnterAlternateScreen ==
    /\ pc = "enter_alternate_screen"
    /\ \E ok \in BOOLEAN :
        IF ok THEN /\ altScreen' = TRUE
                   /\ pc' = "terminal_new"
                   /\ UNCHANGED <<result, key>>
        ELSE altScreen' \in BOOLEAN /\ Exit("Err")
    /\ UNCHANGED <<last_state, blocks, decisions, i, frame, shown, rawMode, released>>

\* Lines 255-256.
TerminalNew ==
    /\ pc = "terminal_new"
    /\ \E ok \in BOOLEAN :
        IF ok THEN pc' = "last_state" /\ UNCHANGED <<result, key>>
        ELSE Exit("Err")
    /\ UNCHANGED <<last_state, blocks, decisions, i, frame, shown, rawMode, altScreen,
                   released>>

\* Line 260: `.iter().cloned().rev().collect()`.
Reverse(s) == [k \in 1..Len(s) |-> s[Len(s) + 1 - k]]

\* Lines 258-262.
LoadLastState ==
    /\ pc = "last_state"
    /\ IF last_state = NoState
       THEN Exit("panic") /\ UNCHANGED <<blocks, decisions, i>>
       ELSE /\ blocks' = last_state.blocks
            /\ decisions' = Reverse(last_state.decisions)
            /\ i' = 0
            /\ pc' = "loop"
            /\ UNCHANGED <<result, key>>
    /\ UNCHANGED <<last_state, frame, shown, rawMode, altScreen, released>>

\* The exit check written with > for >=.
exhausted_off_by_one(n, ds) == n > Len(ds)

\* Line 264: the cursor has passed the last decision.
exhausted(n, ds) == n >= Len(ds)

\* Lines 264-266.
Exhausted ==
    /\ pc = "loop"
    /\ exhausted(i, decisions)
    /\ \E ok1, ok2 \in BOOLEAN : restore_terminal(ok1, ok2)
    /\ UNCHANGED <<last_state, blocks, decisions, i, frame, shown>>

\* Line 268: terminal.draw renders decisions[0..=i], or returns an error. The
\* slice panics when i is out of range, draw_dag when the slice is empty.
Draw ==
    /\ pc = "loop"
    /\ ~exhausted(i, decisions)
    /\ \E ok \in BOOLEAN :
        IF i + 1 > Len(decisions)
        THEN Exit("panic") /\ UNCHANGED <<frame, shown>>
        ELSE IF draw_dag(blocks, SubSeq(decisions, 1, i + 1)) = Panic
        THEN Exit("panic") /\ UNCHANGED <<frame, shown>>
        ELSE IF ok
        THEN /\ frame' = draw_dag(blocks, SubSeq(decisions, 1, i + 1))
             /\ shown' = i + 1
             /\ pc' = "poll"
             /\ key' = "none"
             /\ result' = result
        ELSE Exit("Err") /\ UNCHANGED <<frame, shown>>
    /\ UNCHANGED <<last_state, blocks, decisions, i, rawMode, altScreen, released>>

\* Line 270: poll timed out, or line 271: the event read is not a key.
NoKey ==
    /\ pc = "poll"
    /\ pc' = "loop"
    /\ key' = "none"
    /\ UNCHANGED <<last_state, blocks, decisions, i, frame, shown, rawMode, altScreen,
                   released, result>>

\* Lines 270-271: poll or read returns an error.
EventError ==
    /\ pc = "poll"
    /\ Exit("Err")
    /\ UNCHANGED <<last_state, blocks, decisions, i, frame, shown, rawMode, altScreen,
                   released>>

\* Line 273.
KeyQuit ==
    /\ pc = "poll"
    /\ \E ok1, ok2 \in BOOLEAN : restore_terminal(ok1, ok2)
    /\ UNCHANGED <<last_state, blocks, decisions, i, frame, shown>>

\* KeyAdvance clamping at the last index, as a snapshot viewer would.
KeyAdvance_clamped ==
    /\ pc = "poll"
    /\ key' \in {"l", "Right"}
    /\ i' = IF i + 1 < Len(decisions) THEN i + 1 ELSE i
    /\ pc' = "loop"
    /\ UNCHANGED <<last_state, blocks, decisions, frame, shown, rawMode, altScreen,
                   released, result>>

\* Lines 274-276.
KeyAdvance ==
    /\ pc = "poll"
    /\ key' \in {"l", "Right"}
    /\ i' = i + 1
    /\ pc' = "loop"
    /\ UNCHANGED <<last_state, blocks, decisions, frame, shown, rawMode, altScreen,
                   released, result>>

\* KeyRetreat with 0 for its lower bound.
KeyRetreat_floor_zero ==
    /\ pc = "poll"
    /\ key' \in {"h", "Left"}
    /\ i' = IF i > 0 THEN i - 1 ELSE i
    /\ pc' = "loop"
    /\ UNCHANGED <<last_state, blocks, decisions, frame, shown, rawMode, altScreen,
                   released, result>>

\* Lines 277-281.
KeyRetreat ==
    /\ pc = "poll"
    /\ key' \in {"h", "Left"}
    /\ i' = IF i > 1 THEN i - 1 ELSE i
    /\ pc' = "loop"
    /\ UNCHANGED <<last_state, blocks, decisions, frame, shown, rawMode, altScreen,
                   released, result>>

\* Line 282.
KeyIgnored ==
    /\ pc = "poll"
    /\ key' = "other"
    /\ pc' = "loop"
    /\ UNCHANGED <<last_state, blocks, decisions, i, frame, shown, rawMode, altScreen,
                   released, result>>

Next ==
    \/ EnableRawMode
    \/ EnterAlternateScreen
    \/ TerminalNew
    \/ LoadLastState
    \/ Exhausted
    \/ Draw
    \/ NoKey
    \/ EventError
    \/ KeyQuit
    \/ KeyAdvance
    \/ KeyRetreat
    \/ KeyIgnored

Spec == Init /\ [][Next]_vars

(***************************************************************************)
(* draw_dag on its own: one call on a store and a slice of decisions.      *)
(***************************************************************************)
InitDraw ==
    /\ last_state = NoState
    /\ blocks \in Stores
    /\ decisions \in Slices
    /\ i = 0
    /\ pc = "draw_dag"
    /\ key = "none"
    /\ frame = NoFrame
    /\ shown = 0
    /\ rawMode = FALSE
    /\ altScreen = FALSE
    /\ released = {}
    /\ result = "running"

CallDrawDag ==
    /\ pc = "draw_dag"
    /\ IF draw_dag(blocks, decisions) = Panic
       THEN Exit("panic") /\ UNCHANGED <<frame, shown>>
       ELSE /\ frame' = draw_dag(blocks, decisions)
            /\ shown' = Len(decisions)
            /\ Exit("Ok")
    /\ UNCHANGED <<last_state, blocks, decisions, i, rawMode, altScreen, released>>

NextDraw == CallDrawDag

SpecDraw == InitDraw /\ [][NextDraw]_vars

(***************************************************************************)
(* Properties.                                                             *)
(***************************************************************************)
Max(a, b) == IF a >= b THEN a ELSE b

ReleaseCalls == {"disable_raw_mode", "LeaveAlternateScreen"}

\* enable_raw_mode has succeeded: raw mode is on, or was on until disabled.
RawModeAcquired == rawMode \/ "disable_raw_mode" \in released

\* The decisions of ds that name the block of reference ref.
Matching(ds, ref) == {k \in DOMAIN ds : ds[k].block = ref}

\* The colour of the first decision of ds naming ref, Gray when none does.
FirstVerdictColour(ds, ref) ==
    IF Matching(ds, ref) = {} THEN "Gray"
    ELSE LET k == CHOOSE n \in Matching(ds, ref) : \A m \in Matching(ds, ref) : n <= m
         IN  CASE ds[k].status = "Commit" -> "Green"
               [] ds[k].status = "Skip" -> "Red"
               [] ds[k].status = "Undecided" -> "Blue"

\* A frame has been drawn by the call of draw_dag on `decisions`.
Drawn == pc = "exit" /\ frame.kind = "frame"

\* The parent references of a store: slot and position in the parent list.
ParentIds(bs) ==
    UNION {{<<s[1], s[2], k>> : k \in 1..Len(bs[s[1]][s[2]].parents)} : s \in Slots(bs)}

Listed(es, a, b) == \E k \in 1..Len(es) : es[k] = <<a, b>>

\* C1: once enable_raw_mode has succeeded, main does not end without
\* disable_raw_mode and LeaveAlternateScreen having been executed.
C1_ReleasedOnEveryExit ==
    (pc = "exit" /\ RawModeAcquired) => ReleaseCalls \subseteq released

\* C2: an advance key moves the cursor from i to i+1; with i+1 < N the next
\* frame shows i+2 decisions, and with i+1 = N the loop runs restore_terminal
\* and ends without another frame.
C2_AdvanceOrTerminate ==
    [][/\ (pc = "poll" /\ key' \in {"l", "Right"})
            => (i' = i + 1 /\ pc' = "loop" /\ frame' = frame /\ shown' = shown)
       /\ (pc = "loop" /\ i >= Len(decisions))
            => (/\ pc' = "exit"
                /\ frame' = frame
                /\ shown' = shown
                /\ "disable_raw_mode" \in released')
       /\ (pc = "loop" /\ i < Len(decisions) /\ pc' = "poll")
            => (i' = i /\ shown' = i + 1 /\ frame'.kind = "frame")]_vars

\* The last frame showed all N >= 2 decisions, an advance key followed, and
\* main has ended through restore_terminal.
C2_Witness ==
    /\ pc = "exit"
    /\ result = "Ok"
    /\ i = Len(decisions)
    /\ shown = i
    /\ i >= 2

\* C3 as stated: a retreat key moves the cursor to max(1, i-1) for every i.
C3_RetreatToMaxOne ==
    [][(pc = "poll" /\ key' \in {"h", "Left"}) => i' = Max(1, i - 1)]_vars

\* C3 as amended: a retreat key moves the cursor to max(1, i-1) for i >= 1 and
\* leaves it at 0 for i = 0.
C3_RetreatFloor ==
    [][(pc = "poll" /\ key' \in {"h", "Left"})
          => (/\ i' = IF i = 0 THEN 0 ELSE Max(1, i - 1)
              /\ pc' = "loop")]_vars

\* A retreat key has moved the cursor from 3 to 2.
C3_Witness ==
    /\ pc = "loop"
    /\ key \in {"h", "Left"}
    /\ shown = 4
    /\ i = 2

C5_IndirectForwardOnly ==
    Drawn =>
        \A id \in DOMAIN frame.edges :
            LET block == blocks[id[1]][id[2]]
                p == block.parents[id[3]].label
                b == block.reference.label
                log == decisions[Len(decisions)].log
                highlight ==
                    \/ /\ log.tag = "DirectDecision"
                       /\ \/ Listed(log.value.supporting_edges, p, b)
                          \/ Listed(log.value.supporting_edges, b, p)
                    \/ /\ log.tag = "IndirectDecision"
                       /\ Listed(log.value.edges, p, b)
            IN  frame.edges[id].color = IF highlight THEN "Green" ELSE "White"

\* C5 as amended: an IndirectDecision too highlights the edge when edges lists
\* (block, parent).
C5_EitherDirection ==
    Drawn =>
        \A id \in DOMAIN frame.edges :
            LET block == blocks[id[1]][id[2]]
                p == block.parents[id[3]].label
                b == block.reference.label
                log == decisions[Len(decisions)].log
                highlight ==
                    \/ /\ log.tag = "DirectDecision"
                       /\ \/ Listed(log.value.supporting_edges, p, b)
                          \/ Listed(log.value.supporting_edges, b, p)
                    \/ /\ log.tag = "IndirectDecision"
                       /\ \/ Listed(log.value.edges, p, b)
                          \/ Listed(log.value.edges, b, p)
            IN  frame.edges[id].color = IF highlight THEN "Green" ELSE "White"

\* Under an IndirectDecision one edge is Green for the reversed pair alone,
\* and another edge is White.
C5_Witness ==
    /\ Drawn
    /\ decisions[Len(decisions)].log.tag = "IndirectDecision"
    /\ \E id, other \in DOMAIN frame.edges :
          LET block == blocks[id[1]][id[2]]
              p == block.parents[id[3]].label
              b == block.reference.label
              es == decisions[Len(decisions)].log.value.edges
          IN  /\ Listed(es, b, p)
              /\ ~Listed(es, p, b)
              /\ frame.edges[id].color = "Green"
              /\ frame.edges[other].color = "White"

\* C6 as stated: under an IndirectDecision with anchor X, every block labelled
\* X gets an annotation naming X in that block's own node colour, and its node
\* keeps that colour; under any other log there is no annotation.
C6_AnchorOwnColour ==
    Drawn =>
        LET last == decisions[Len(decisions)]
        IN  IF last.log.tag = "IndirectDecision"
            THEN \A s \in Slots(blocks) :
                    blocks[s[1]][s[2]].reference.label = last.log.value.anchor
                    => /\ s \in DOMAIN frame.anchors
                       /\ frame.anchors[s].text = <<"Anchor: ", last.log.value.anchor>>
                       /\ frame.anchors[s].color = frame.nodes[s].color
                       /\ frame.nodes[s].color =
                              FirstVerdictColour(decisions, blocks[s[1]][s[2]].reference)
            ELSE DOMAIN frame.anchors = {}

\* C6 as amended: the annotation has the colour of the status of the most
\* recent decision; the node of the anchor keeps the colour its own verdict
\* gives it.
C6_AnchorDecisionColour ==
    Drawn =>
        LET last == decisions[Len(decisions)]
        IN  IF last.log.tag = "IndirectDecision"
            THEN /\ \A s \in DOMAIN frame.anchors :
                        blocks[s[1]][s[2]].reference.label = last.log.value.anchor
                 /\ \A s \in Slots(blocks) :
                        blocks[s[1]][s[2]].reference.label = last.log.value.anchor
                        => /\ s \in DOMAIN frame.anchors
                           /\ frame.anchors[s].text = <<"Anchor: ", last.log.value.anchor>>
                           /\ frame.anchors[s].color =
                                  (CASE last.status = "Commit" -> "Green"
                                     [] last.status = "Skip" -> "Red"
                                     [] last.status = "Undecided" -> "Blue")
                           /\ frame.nodes[s].color =
                                  FirstVerdictColour(decisions, blocks[s[1]][s[2]].reference)
            ELSE DOMAIN frame.anchors = {}

\* The anchor has a verdict of its own, and its annotation has another colour.
C6_Witness ==
    /\ Drawn
    /\ \E s \in DOMAIN frame.anchors :
          /\ Matching(decisions, blocks[s[1]][s[2]].reference) # {}
          /\ frame.anchors[s].color # frame.nodes[s].color

C8_CursorInBounds ==
    /\ pc = "poll" =>
          /\ 0 <= i
          /\ i < Len(decisions)
          /\ shown = i + 1
          /\ frame.kind = "frame"
          /\ Len(frame.status) = 1
    /\ frame.kind = "frame" => (1 <= shown /\ shown <= Len(decisions))
    /\ result = "panic" => last_state = NoState

\* A frame is on screen at the last index of a list of three or more decisions.
C8_Witness ==
    /\ pc = "poll"
    /\ i = Len(decisions) - 1
    /\ i >= 2

\* C9: when a frame showing one more decision replaces a frame, every block
\* that a decision of the older frame named keeps its node colour.
C9_VerdictColourKept ==
    [][(frame.kind = "frame" /\ frame'.kind = "frame" /\ shown' = shown + 1)
          => \A s \in Slots(blocks) :
                Matching(SubSeq(decisions, 1, shown), blocks[s[1]][s[2]].reference) # {}
                => frame'.nodes[s].color = frame.nodes[s].color]_vars

\* The newest visible decision names a block of the store that an earlier
\* visible decision named with another status.
C9_Witness ==
    /\ pc = "poll"
    /\ shown >= 2
    /\ \E s \in Slots(blocks) : \E k \in 1..(shown - 1) :
          /\ decisions[k].block = blocks[s[1]][s[2]].reference
          /\ decisions[shown].block = blocks[s[1]][s[2]].reference
          /\ decisions[k].status # decisions[shown].status
          /\ frame.nodes[s].color = color_from_status(decisions[k].status)

====
